---------------------------- MODULE Spec2Model ----------------------------
(***************************************************************************)
(* A model of the VibeResearch writing assistant: the citation resolver    *)
(* (services/geminiService.ts), the style-profile merge (analyzeStyle) and *)
(* the application state machine of App.tsx that drives them.              *)
(*                                                                         *)
(* Three specifications share the definitions below:                       *)
(*   SpecStyle     analyzeStyle applied to bounded analyzer responses      *)
(*   SpecResolver  findCitationsForSelection applied to bounded inputs     *)
(*   Spec          the App component: handlers and their continuations     *)
(***************************************************************************)
EXTENDS Integers, Sequences, FiniteSets, TLC

VARIABLES
    apiKey,          \* geminiService.ts:4   TRUE iff process.env.API_KEY is non-empty
    sRaw,            \* SpecStyle: the object the style oracle's JSON parses to
    sOutcome,        \* SpecStyle: how the oracle call ended
    sResult,         \* SpecStyle: what analyzeStyle did (return value or throw)
    sPc,             \* SpecStyle: "ready" before the call, "done" after
    now,             \* Date.now(), in milliseconds from the start of the session
    rSelection,      \* SpecResolver: the excerpt passed to the resolver
    rDB,             \* SpecResolver: the bibliography passed to the resolver
    rKw,             \* SpecResolver: how the keyword oracle ended
    rGen,            \* SpecResolver: how the generation oracle ended
    rResult,         \* SpecResolver: what the resolver did, and the calls it made
    rPc,             \* SpecResolver: "ready" before the call, "done" after
    content,         \* App.tsx:10   the document
    researchData,    \* App.tsx:12   the bibliography, newest first
    liveSuggestions, \* App.tsx:13   the snippets of the live feed
    styleProfile,    \* App.tsx:14   the current StyleProfile
    isGhostWriting,  \* App.tsx:15   busy flag of the editor requests
    isCalibrating,   \* App.tsx:16   busy flag of the calibration
    ghostReqs,       \* handleGhostWrite calls suspended at their await
    citeReqs,        \* handleFindCitations calls suspended at their await
    calibReqs,       \* handleCalibrateFromEditor calls suspended at their await
    started,         \* number of user events so far
    lastCite,        \* history: the last handleFindCitations call that resumed
    lastEvent,       \* history: the name of the last user event
    timers,          \* App.tsx:21   the pending timeouts of the debounce effect
    autoReqs,        \* timeout callbacks suspended at await extractKeywords
    lastEdit,        \* history: when the document last changed, -1 before that
    runsSinceEdit,   \* history: automatic lookups started since lastEdit
    lastRun,         \* history: the last automatic lookup that started
    showAdvancedSettings, \* VibeDeck:55  the settings form is open
    editingProfile,  \* VibeDeck:64  the profile being edited in the form
    bannedWordInput, \* VibeDeck:65  the text of the banned-words box
    isAnalyzingFile, \* VibeDeck:54  busy flag of the style-file upload
    fileReqs,        \* handleFileUpload calls suspended at await analyzeStyle
    cTrigger,        \* SpecCalls: the trigger whose oracle calls are counted
    cText,           \* SpecCalls: the text the trigger works on
    cDB,             \* SpecCalls: the bibliography the trigger works on
    cOutcome,        \* SpecCalls: how each oracle ends when called
    cCalls,          \* SpecCalls: attempts made on each oracle by the trigger
    cPc,             \* SpecCalls: "ready" before the trigger, "done" after
    sectionReqs,     \* handleRewrite / handleContinue calls suspended at their await
    lastDone,        \* history: the last editor request that resumed
    lastAuto,        \* history: the last automatic lookup that resumed
    isGeneratingSample, \* VibeDeck:58  busy flag of the sample generation
    sampleReqs,      \* handleGenerateSample calls suspended at their await
    testSampleText,  \* VibeDeck:57  the sample shown
    showTestSample,  \* VibeDeck:56  the sample dialog is open
    gProfile,        \* SpecSample: the profile passed to generateStyleSample
    gOutcome,        \* SpecSample: how the sample oracle ends when called
    gResult,         \* SpecSample: what generateStyleSample returns or throws
    gPc              \* SpecSample: "ready" before the call, "done" after

styVars == <<sRaw, sOutcome, sResult, sPc>>
resVars == <<rSelection, rDB, rKw, rGen, rResult, rPc>>
appVars == <<content, researchData, liveSuggestions, styleProfile,
             isGhostWriting, isCalibrating, ghostReqs, citeReqs, calibReqs,
             started, lastCite, lastEvent>>
timerVars == <<timers, autoReqs, lastEdit, runsSinceEdit, lastRun>>
deckVars == <<showAdvancedSettings, editingProfile, bannedWordInput,
              isAnalyzingFile, fileReqs>>
callVars == <<cTrigger, cText, cDB, cOutcome, cCalls, cPc>>
sectionVars == <<sectionReqs, lastDone>>
sampleVars == <<isGeneratingSample, sampleReqs, testSampleText, showTestSample>>
genVars == <<gProfile, gOutcome, gResult, gPc>>
extVars == <<sectionVars, lastAuto, sampleVars, genVars>>

(***************************************************************************)
(* JavaScript values.  A value carries its type, so that `||` (falsy) and  *)
(* `??` (nullish) can be told apart as the language does.                  *)
(***************************************************************************)
Undefined == [type |-> "undefined"]
Null      == [type |-> "null"]
Str(s)    == [type |-> "string", val |-> s]
Bool(b)   == [type |-> "boolean", val |-> b]
Num(n)    == [type |-> "number", val |-> n]
Arr(a)    == [type |-> "array", val |-> a]

\* ECMAScript ToBoolean
Truthy(v) ==
    CASE v.type = "undefined" -> FALSE
      [] v.type = "null"      -> FALSE
      [] v.type = "boolean"   -> v.val
      [] v.type = "string"    -> v.val # ""
      [] v.type = "number"    -> v.val # 0
      [] OTHER                -> TRUE

Nullish(v) == v.type \in {"undefined", "null"}

\* a || b
JsOr(a, b) == IF Truthy(a) THEN a ELSE b

\* a ?? b
JsCoalesce(a, b) == IF Nullish(a) THEN b ELSE a

(***************************************************************************)
(* StyleProfile (types.ts).  A profile is a function from the field names  *)
(* to values; a field the object does not own reads as Undefined.          *)
(***************************************************************************)
TextFields    == {"tone", "avgSentenceLength", "jargonLevel", "rawSummary"}
NumericFields == {"formalityLevel", "sentenceVariance", "activeVoice"}
EnumFields    == {"dialect", "sentenceStructure", "sentenceLengthBias",
                  "vocabularyStyle", "modifierFrequency", "connectiveFrequency",
                  "writingDomain", "structuralBias"}
RhetoricFields == {"useMetaphors", "useAnalogies", "useAnecdotes"}
PedantryFields == {"allowContractions", "allowSplitInfinitives",
                   "allowEndingPrepositions"}
LegacyFields  == {"useIdioms", "useRhetoricalDevices", "preferConcreteNouns"}
ArrayFields   == {"transitionWords", "allowedPunctuation", "bannedWords"}

StyleProfileFields ==
    TextFields \cup NumericFields \cup EnumFields \cup RhetoricFields
        \cup PedantryFields \cup LegacyFields \cup ArrayFields

\* services/mockData.ts: DEFAULT_STYLE_PROFILE
DEFAULT_STYLE_PROFILE ==
    [f \in StyleProfileFields |->
        CASE f = "tone"                    -> Str("Objective")
          [] f = "avgSentenceLength"       -> Str("Medium-Long")
          [] f = "jargonLevel"             -> Str("High")
          [] f = "transitionWords"         -> Arr(<<>>)
          [] f = "rawSummary"              -> Str("Scientific academic profile.")
          [] f = "formalityLevel"          -> Num(85)
          [] f = "sentenceVariance"        -> Num(40)
          [] f = "activeVoice"             -> Num(60)
          [] f = "dialect"                 -> Str("American")
          [] f = "sentenceStructure"       -> Str("Balanced")
          [] f = "sentenceLengthBias"      -> Str("Varied")
          [] f = "vocabularyStyle"         -> Str("Literal")
          [] f = "modifierFrequency"       -> Str("Low")
          [] f = "connectiveFrequency"     -> Str("Low")
          [] f = "writingDomain"           -> Str("Scientific")
          [] f = "structuralBias"          -> Str("Coupling (2s)")
          [] f = "useMetaphors"            -> Bool(FALSE)
          [] f = "useAnalogies"            -> Bool(TRUE)
          [] f = "useAnecdotes"            -> Bool(FALSE)
          [] f = "allowContractions"       -> Bool(FALSE)
          [] f = "allowSplitInfinitives"   -> Bool(FALSE)
          [] f = "allowEndingPrepositions" -> Bool(FALSE)
          [] f = "useIdioms"               -> Bool(FALSE)
          [] f = "useRhetoricalDevices"    -> Bool(FALSE)
          [] f = "preferConcreteNouns"     -> Bool(TRUE)
          [] f = "allowedPunctuation"      ->
                 Arr(<<";", ":", "--", "()", "!", ",", ".">>)
          [] f = "bannedWords"             ->
                 Arr(<<"delve", "tapestry", "landscape", "testament",
                       "underscore", "seamless", "game-changer",
                       "transformative", "leverage", "unleash", "realm",
                       "foster", "robust", "revolutionize", "cutting-edge">>)]

(***************************************************************************)
(* analyzeStyle (geminiService.ts:10-112)                                  *)
(***************************************************************************)
\* The fields analyzeStyle guards with `||` (lines 59-66, 74, 75) ...
OrFields == EnumFields \cup {"allowedPunctuation", "bannedWords"}
\* ... and with `??` (lines 67-73)
CoalesceFields ==
    RhetoricFields \cup PedantryFields \cup {"preferConcreteNouns"}

\* The right-hand sides of the fallbacks (lines 59-75)
FallbackValue_Strict(f) ==
    CASE f = "dialect"                 -> Str("American")
      [] f = "sentenceStructure"       -> Str("Natural")
      [] f = "sentenceLengthBias"      -> Str("Varied")
      [] f = "vocabularyStyle"         -> Str("Literal")
      [] f = "modifierFrequency"       -> Str("Medium")
      [] f = "connectiveFrequency"     -> Str("Medium")
      [] f = "writingDomain"           -> Str("General")
      [] f = "structuralBias"          -> Str("Default")
      [] f = "useMetaphors"            -> Bool(FALSE)
      [] f = "useAnalogies"            -> Bool(FALSE)
      [] f = "useAnecdotes"            -> Bool(FALSE)
      [] f = "allowContractions"       -> Bool(FALSE)
      [] f = "allowSplitInfinitives"   -> Bool(FALSE)
      [] f = "allowEndingPrepositions" -> Bool(FALSE)
      [] f = "preferConcreteNouns"     -> Bool(TRUE)
      [] f = "allowedPunctuation"      -> Arr(<<",", ".">>)
      [] f = "bannedWords"             -> Arr(<<>>)
      [] OTHER                         -> Undefined

FallbackValue(f) ==
    CASE f = "dialect"                 -> Str("American")
      [] f = "sentenceStructure"       -> Str("Natural")
      [] f = "sentenceLengthBias"      -> Str("Varied")
      [] f = "vocabularyStyle"         -> Str("Literal")
      [] f = "modifierFrequency"       -> Str("Medium")
      [] f = "connectiveFrequency"     -> Str("Medium")
      [] f = "writingDomain"           -> Str("General")
      [] f = "structuralBias"          -> Str("Default")
      [] f = "useMetaphors"            -> Bool(FALSE)
      [] f = "useAnalogies"            -> Bool(FALSE)
      [] f = "useAnecdotes"            -> Bool(FALSE)
      [] f = "allowContractions"       -> Bool(TRUE)
      [] f = "allowSplitInfinitives"   -> Bool(TRUE)
      [] f = "allowEndingPrepositions" -> Bool(TRUE)
      [] f = "preferConcreteNouns"     -> Bool(TRUE)
      [] f = "allowedPunctuation"      -> Arr(<<",", ".">>)
      [] f = "bannedWords"             -> Arr(<<>>)
      [] OTHER                         -> Undefined

\* The object literal of lines 56-76: the spread of `parsed`, then the
\* guarded fields written over it.  Fields with no guard keep what the
\* spread gave them, which is nothing when `parsed` does not own them.
MergeProfile(parsed) ==
    [f \in StyleProfileFields |->
        IF f \in OrFields THEN JsOr(parsed[f], FallbackValue(f))
        ELSE IF f \in CoalesceFields THEN JsCoalesce(parsed[f], FallbackValue(f))
        ELSE parsed[f]]

\* The "safe default" of the catch block (lines 82-110)
ErrorProfile ==
    [f \in StyleProfileFields |->
        CASE f \in {"tone", "avgSentenceLength", "jargonLevel"} -> Str("Error")
          [] f = "rawSummary"              -> Str("Failed to analyze style.")
          [] f \in NumericFields           -> Num(50)
          [] f = "dialect"                 -> Str("American")
          [] f = "sentenceStructure"       -> Str("Natural")
          [] f = "sentenceLengthBias"      -> Str("Varied")
          [] f = "vocabularyStyle"         -> Str("Literal")
          [] f = "modifierFrequency"       -> Str("Medium")
          [] f = "connectiveFrequency"     -> Str("Medium")
          [] f = "writingDomain"           -> Str("General")
          [] f = "structuralBias"          -> Str("Default")
          [] f \in RhetoricFields          -> Bool(FALSE)
          [] f \in PedantryFields          -> Bool(TRUE)
          [] f = "preferConcreteNouns"     -> Bool(TRUE)
          [] f \in {"useIdioms", "useRhetoricalDevices"} -> Bool(FALSE)
          [] OTHER                         -> Arr(<<>>)]

\* How a call of the style oracle can end:
\*   "object"   response.text is the JSON of an object (the raw record)
\*   "jsonNull" response.text is the JSON text "null"
\*   "badJson"  response.text is not JSON: JSON.parse throws
\*   "noText"   response.text is empty or undefined
\*   "throw"    generateContent rejects (network, quota, ...)
StyleOutcomes == {"object", "jsonNull", "badJson", "noText", "throw"}

Return(v) == [kind |-> "return", value |-> v]
Throw(e)  == [kind |-> "throw", error |-> e]

\* analyzeStyle as a whole.  key: the module's apiKey is non-empty.
AnalyzeStyle(key, outcome, parsed) ==
    IF ~key THEN Throw("API Key missing")                \* line 11
    ELSE IF outcome = "object" THEN Return(MergeProfile(parsed))
    ELSE Return(ErrorProfile)  \* lines 78-111: every failure inside the try

(***************************************************************************)
(* Text.  A string is the sequence of its characters, so that length,      *)
(* case folding and substring search are computed, not assumed.            *)
(***************************************************************************)
\* String.prototype.toLowerCase on the model's alphabet
LowerChar(c) ==
    CASE c = "Q" -> "q"
      [] c = "U" -> "u"
      [] c = "S" -> "s"
      [] c = "O" -> "o"
      [] c = "L" -> "l"
      [] c = "M" -> "m"
      [] OTHER   -> c

ToLowerCase(s) == [i \in DOMAIN s |-> LowerChar(s[i])]

\* String.prototype.includes: k occurs in s at some offset
Includes(s, k) ==
    \E off \in 0..(Len(s) - Len(k)) : SubSeq(s, off + 1, off + Len(k)) = k

\* A text of n characters
Text(n) == [i \in 1..n |-> "x"]

(***************************************************************************)
(* ResearchSnippet (types.ts:1-8).  The fields the modelled code reads are *)
(* id, content and tags; source, year and author only reach prompts and    *)
(* the display.  An id is a tuple: <<"lit", n>> for the literal ids of the *)
(* seed library, <<"gen", t, r>> for `gen_${Date.now()}_${random}` and     *)
(* <<"ts", t>> for Date.now().toString().  Clock values stand for          *)
(* present-day timestamps, which never spell a seed id.                    *)
(***************************************************************************)
Snippet(id, text, tags) == [id |-> id, content |-> text, tags |-> tags]

\* services/mockData.ts: INITIAL_RESEARCH_DB, contents and tags abbreviated
INITIAL_RESEARCH_DB ==
    << Snippet(<<"lit", 1>>, <<"S", "o", "l">>,
               << <<"s", "o">>, <<"e", "f">>, <<"q", "u">> >>),
       Snippet(<<"lit", 2>>, <<"a", "Q", "u", "a">>,
               << <<"q", "u">>, <<"d", "e">>, <<"p", "h">> >>),
       Snippet(<<"lit", 3>>, <<"L", "L", "M">>,
               << <<"a", "i">>, <<"l", "l", "m">>, <<"w", "r">> >>),
       Snippet(<<"lit", 4>>, <<"U", "x">>,
               << <<"u", "x">>, <<"i", "n">>, <<"p", "r">> >>) >>

Ids(db) == {db[i].id : i \in DOMAIN db}

(***************************************************************************)
(* extractKeywords (geminiService.ts:383-401)                              *)
(***************************************************************************)
MinKeywordTextLen == 50

\* The same function without the length test of line 384
ExtractKeywords_NoThreshold(key, text, outcome) ==
    IF ~key
    THEN [kind |-> "array", val |-> <<>>, called |-> FALSE]
    ELSE CASE outcome.kind = "array" ->
                [kind |-> "array", val |-> outcome.val, called |-> TRUE]
           [] outcome.kind = "nonArray" ->
                [kind |-> "nonArray", called |-> TRUE]
           [] OTHER ->
                [kind |-> "array", val |-> <<>>, called |-> TRUE]

\* How a call of the keyword oracle can end:
\*   [kind |-> "array", val |-> ks]  the JSON of an array of strings
\*   [kind |-> "nonArray"]           valid JSON that is no array
\*   [kind |-> "noText"]             no text: JSON.parse("[]")
\*   [kind |-> "badJson"], [kind |-> "throw"]   caught, []
\* The value returned: [kind |-> "array", val |-> ks, called |-> ...] or
\* [kind |-> "nonArray", called |-> TRUE], called: the oracle was invoked.
ExtractKeywords(key, text, outcome) ==
    IF ~key \/ Len(text) < MinKeywordTextLen
    THEN [kind |-> "array", val |-> <<>>, called |-> FALSE]
    ELSE CASE outcome.kind = "array" ->
                [kind |-> "array", val |-> outcome.val, called |-> TRUE]
           [] outcome.kind = "nonArray" ->
                [kind |-> "nonArray", called |-> TRUE]
           [] OTHER ->
                [kind |-> "array", val |-> <<>>, called |-> TRUE]

(***************************************************************************)
(* findCitationsForSelection (geminiService.ts:286-347)                    *)
(***************************************************************************)
\* The number of citations the resolver aims at (lines 303, 304, 309)
CitationTarget == 3

\* The same filter without the case folding
ItemMatches_CaseSensitive(item, keywords) ==
    \E i \in DOMAIN keywords :
        \/ Includes(item.content, keywords[i])
        \/ \E j \in DOMAIN item.tags : Includes(item.tags[j], keywords[i])

\* The filter predicate of lines 296-299
ItemMatches(item, keywords) ==
    \E i \in DOMAIN keywords :
        LET k == ToLowerCase(keywords[i]) IN
            \/ Includes(ToLowerCase(item.content), k)
            \/ \E j \in DOMAIN item.tags : Includes(ToLowerCase(item.tags[j]), k)

\* researchDB.filter(...) of lines 295-300
LocalMatches(db, keywords) ==
    SelectSeq(db, LAMBDA item : ItemMatches(item, keywords))

\* Array.prototype.slice(0, n)
Take(s, n) == SubSeq(s, 1, IF n < Len(s) THEN n ELSE Len(s))

\* line 303
EnoughLocal_Strict(localMatches) == Len(localMatches) > CitationTarget
EnoughLocal(localMatches) == Len(localMatches) >= CitationTarget

\* line 309
Needed(localMatches) == CitationTarget - Len(localMatches)

\* lines 336-339: every generated item gets the id gen_<clock>_<random>
NewSnippets(items, clock, rands) ==
    [i \in DOMAIN items |->
        Snippet(<<"gen", clock, rands[i]>>, items[i].content, items[i].tags)]

\* How a call of the generation oracle can end:
\*   [kind |-> "array", items |-> .., rands |-> ..]  the JSON of an array;
\*        rands are the Math.random() suffixes drawn while mapping it
\*   [kind |-> "nonArray"]  valid JSON that is no array: generated.map throws
\*   [kind |-> "badJson"]   JSON.parse throws
\*   [kind |-> "noText"]    response.text is empty
\*   [kind |-> "throw"]     generateContent rejects
GenFailures == {"nonArray", "badJson", "noText", "throw"}

\* lines 327-346: the generation call and what the function returns after it
GenerateMore_NoCatch(localMatches, outcome, clock) ==
    IF outcome.kind = "array"
    THEN [kind |-> "return",
          value |-> localMatches \o NewSnippets(outcome.items, clock, outcome.rands),
          synthetic |-> NewSnippets(outcome.items, clock, outcome.rands)]
    ELSE IF outcome.kind = "noText"
    THEN [kind |-> "return", value |-> localMatches, synthetic |-> <<>>]
    ELSE [kind |-> "throw", error |-> outcome.kind]

GenerateMore(localMatches, outcome, clock) ==
    IF outcome.kind = "array"
    THEN [kind |-> "return",
          value |-> localMatches \o NewSnippets(outcome.items, clock, outcome.rands),
          synthetic |-> NewSnippets(outcome.items, clock, outcome.rands)]
    ELSE [kind |-> "return", value |-> localMatches, synthetic |-> <<>>]

\* The whole function.  The result records, beside what the caller gets,
\* the calls made on the way: kwCalled (the keyword oracle was invoked) and
\* genRequests (the item counts of the generation requests issued).
FindCitationsForSelection(key, selection, researchDB, kwOutcome, genOutcome, clock) ==
    IF ~key
    THEN [kind |-> "throw", error |-> "API Key missing",
          kwCalled |-> FALSE, genRequests |-> <<>>]              \* line 290
    ELSE LET kw == ExtractKeywords(key, selection, kwOutcome) IN  \* line 293
         IF kw.kind = "nonArray"
         THEN \* keywords.some is not a function, once filter visits an item
              IF researchDB # <<>>
              THEN [kind |-> "throw", error |-> "TypeError",
                    kwCalled |-> kw.called, genRequests |-> <<>>]
              ELSE [kwCalled |-> kw.called, genRequests |-> <<Needed(<<>>)>>,
                    localMatches |-> <<>>]
                   @@ GenerateMore(<<>>, genOutcome, clock)
         ELSE LET localMatches == LocalMatches(researchDB, kw.val) IN
              IF EnoughLocal(localMatches)
              THEN [kind |-> "return",
                    value |-> Take(localMatches, CitationTarget),
                    synthetic |-> <<>>, localMatches |-> localMatches,
                    kwCalled |-> kw.called, genRequests |-> <<>>]  \* line 304
              ELSE [kwCalled |-> kw.called,
                    genRequests |-> <<Needed(localMatches)>>,
                    localMatches |-> localMatches]
                   @@ GenerateMore(localMatches, genOutcome, clock)

(***************************************************************************)
(* SpecStyle: analyzeStyle on bounded oracle responses                     *)
(***************************************************************************)
\* How many fields of a response deviate from a complete one
MaxDeviations == 2

\* A complete, well-typed response that differs from every fallback
CompleteRaw ==
    [f \in StyleProfileFields |->
        CASE f \in TextFields              -> Str("Wry")
          [] f \in NumericFields           -> Num(70)
          [] f = "dialect"                 -> Str("British")
          [] f = "sentenceStructure"       -> Str("Periodic")
          [] f = "sentenceLengthBias"      -> Str("Long")
          [] f = "vocabularyStyle"         -> Str("Complex")
          [] f = "modifierFrequency"       -> Str("High")
          [] f = "connectiveFrequency"     -> Str("High")
          [] f = "writingDomain"           -> Str("Creative")
          [] f = "structuralBias"          -> Str("Triplets (3s)")
          [] f \in RhetoricFields          -> Bool(TRUE)
          [] f \in PedantryFields          -> Bool(FALSE)
          [] f \in LegacyFields            -> Bool(FALSE)
          [] OTHER                         -> Arr(<<"moreover">>)]

\* The falsy, non-null value of a field's type
FalsyOf(f) ==
    IF f \in ArrayFields THEN Arr(<<>>)       \* an empty list (truthy in JS)
    ELSE IF f \in NumericFields THEN Num(0)
    ELSE IF f \in RhetoricFields \cup PedantryFields \cup LegacyFields
         THEN Bool(FALSE)
    ELSE Str("")

DeviationKinds == {"undefined", "null", "falsy"}

Deviate(kind, f) ==
    CASE kind = "undefined" -> Undefined
      [] kind = "null"      -> Null
      [] OTHER              -> FalsyOf(f)

\* Responses: a complete one with up to MaxDeviations fields made absent,
\* null or falsy, and the empty object.
RawResponses ==
    { [f \in StyleProfileFields |->
          IF \E i \in DOMAIN pick : pick[i] = f THEN Deviate(kind, f)
          ELSE CompleteRaw[f]] :
        pick \in [1..MaxDeviations -> StyleProfileFields],
        kind \in DeviationKinds }
    \cup { [f \in StyleProfileFields |-> Undefined] }

NoResult == [kind |-> "none"]
NotCalled == [kind |-> "notCalled"]

StyleIdle ==
    /\ sRaw = CompleteRaw
    /\ sOutcome = "none"
    /\ sResult = NoResult
    /\ sPc = "idle"

ResolverIdle ==
    /\ rSelection = <<>>
    /\ rDB = <<>>
    /\ rKw = NotCalled
    /\ rGen = NotCalled
    /\ rResult = NoResult
    /\ rPc = "idle"

SampleIdle ==
    /\ gProfile = NoResult
    /\ gOutcome = "none"
    /\ gResult = NoResult
    /\ gPc = "idle"

CallsIdle ==
    /\ cTrigger = "none"
    /\ cText = <<>>
    /\ cDB = <<>>
    /\ cOutcome = NotCalled
    /\ cCalls = NoResult
    /\ cPc = "idle"

\* App.tsx:36: the delay of the debounce timeout, in milliseconds
DebounceMs == 30000

\* setTimeout of App.tsx:21-36 called at time clock in a render whose
\* closure holds the document doc and the bibliography db
Timeout(clock, doc, db) ==
    [deadline |-> clock + DebounceMs, content |-> doc, researchData |-> db]

\* The state of App and VibeDeck after the first render and its effect
\* (App.tsx:10-38, VibeDeck:52-65), the clock reading 0
AppInitial ==
    /\ content = <<>>
    /\ researchData = INITIAL_RESEARCH_DB
    /\ liveSuggestions = <<>>
    /\ styleProfile = DEFAULT_STYLE_PROFILE
    /\ isGhostWriting = FALSE
    /\ isCalibrating = FALSE
    /\ ghostReqs = <<>>
    /\ citeReqs = <<>>
    /\ calibReqs = <<>>
    /\ started = 0
    /\ lastCite = NoResult
    /\ lastEvent = "none"
    /\ timers = << Timeout(0, <<>>, INITIAL_RESEARCH_DB) >>
    /\ autoReqs = <<>>
    /\ lastEdit = -1
    /\ runsSinceEdit = 0
    /\ lastRun = NoResult
    /\ showAdvancedSettings = FALSE
    /\ editingProfile = DEFAULT_STYLE_PROFILE
    /\ bannedWordInput = <<>>
    /\ isAnalyzingFile = FALSE
    /\ fileReqs = <<>>
    /\ sectionReqs = <<>>
    /\ lastDone = NoResult
    /\ lastAuto = NoResult
    /\ isGeneratingSample = FALSE
    /\ sampleReqs = <<>>
    /\ testSampleText = ""
    /\ showTestSample = FALSE

InitStyle ==
    /\ apiKey \in BOOLEAN
    /\ now = 0
    /\ AppInitial
    /\ CallsIdle
    /\ SampleIdle
    /\ sRaw \in RawResponses
    /\ sOutcome = "none"
    /\ sResult = NoResult
    /\ sPc = "ready"
    /\ ResolverIdle

\* One call of analyzeStyle, the oracle ending in any of its outcomes
AnalyzeStyleCall ==
    /\ sPc = "ready"
    /\ \E o \in StyleOutcomes :
          /\ sOutcome' = o
          /\ sResult' = AnalyzeStyle(apiKey, o, sRaw)
    /\ sPc' = "done"
    /\ UNCHANGED <<apiKey, now, sRaw, resVars, appVars, timerVars, deckVars, callVars, extVars>>

NextStyle == AnalyzeStyleCall

vars == <<apiKey, now, styVars, resVars, appVars, timerVars, deckVars, callVars, extVars>>

SpecStyle == InitStyle /\ [][NextStyle]_vars

(***************************************************************************)
(* SpecResolver: findCitationsForSelection on bounded inputs               *)
(***************************************************************************)
\* Longest keyword list the keyword oracle returns
MaxKeywords == 2
\* Most items the generation oracle returns, whatever number was asked for
MaxGenItems == 4
\* Number of distinct suffixes Math.random() can contribute to an id
NumRandom == 2
KeywordPool == { <<"Q", "U">>, <<"s", "o">>, <<"z", "z">> }

KeywordLists ==
    UNION { [1..n -> KeywordPool] : n \in 0..MaxKeywords }

KwOutcomes ==
    { [kind |-> "array", val |-> ks] : ks \in KeywordLists }
    \cup { [kind |-> k] : k \in {"nonArray", "noText", "badJson", "throw"} }

\* What the generation oracle writes into an item (content, tags)
GenBody == [content |-> <<"Q", "u", "o">>, tags |-> << <<"g", "e", "n">> >>]

GenOutcomes ==
    UNION { { [kind |-> "array", items |-> [i \in 1..n |-> GenBody], rands |-> rs] :
                rs \in [1..n -> 1..NumRandom] } : n \in 0..MaxGenItems }
    \cup { [kind |-> k] : k \in GenFailures }

\* Entries a bibliography passed to the resolver is drawn from, in order:
\* an upload, an entry an earlier generation left, and the seed library
ResolverPool ==
    << Snippet(<<"ts", 0>>, <<"q", "u", ".", ".", ".">>, << <<"u", "p">> >>),
       Snippet(<<"gen", 0, 1>>, GenBody.content, GenBody.tags) >>
    \o INITIAL_RESEARCH_DB

RECURSIVE SubList(_, _, _)
\* The entries of pool at the indexes in S, in pool order, from index i on
SubList(pool, S, i) ==
    IF i > Len(pool) THEN <<>>
    ELSE (IF i \in S THEN <<pool[i]>> ELSE <<>>) \o SubList(pool, S, i + 1)

Bibliographies == { SubList(ResolverPool, S, 1) : S \in SUBSET (1..Len(ResolverPool)) }

\* Excerpts: empty, just below and at the keyword threshold
Selections == { Text(0), Text(MinKeywordTextLen - 1), Text(MinKeywordTextLen) }

InitResolver ==
    /\ apiKey \in BOOLEAN
    /\ now = 0
    /\ AppInitial
    /\ CallsIdle
    /\ SampleIdle
    /\ rSelection \in Selections
    /\ rDB \in Bibliographies
    /\ rKw = NotCalled
    /\ rGen = NotCalled
    /\ rResult = NoResult
    /\ rPc = "ready"
    /\ StyleIdle

\* One call of findCitationsForSelection.  An oracle's outcome is drawn
\* only when the call reaches that oracle.
ResolveCall ==
    /\ rPc = "ready"
    /\ \E ko \in (IF apiKey /\ Len(rSelection) >= MinKeywordTextLen
                  THEN KwOutcomes ELSE {NotCalled}) :
         LET probe == FindCitationsForSelection(apiKey, rSelection, rDB, ko, NotCalled, now) IN
         \E go \in (IF probe.genRequests # <<>> THEN GenOutcomes ELSE {NotCalled}) :
            /\ rKw' = ko
            /\ rGen' = go
            /\ rResult' = FindCitationsForSelection(apiKey, rSelection, rDB, ko, go, now)
    /\ rPc' = "done"
    /\ UNCHANGED <<apiKey, now, rSelection, rDB, styVars, appVars, timerVars,
                   deckVars, callVars, extVars>>

NextResolver == ResolveCall

SpecResolver == InitResolver /\ [][NextResolver]_vars

(***************************************************************************)
(* Spec: the App component (App.tsx).  A handler that awaits is two        *)
(* actions: its synchronous part, which leaves a request holding what the  *)
(* closure captured, and its continuation, which runs when the awaited     *)
(* promise settles.  Continuations of different requests run in any order. *)
(***************************************************************************)
\* User events (edits, handler calls, uploads) in one behaviour
MaxEvents == 3
\* Largest clock value
MaxClock == 1
\* Most items an oracle returns to the App
MaxAppItems == 2

\* App.tsx:147
MinCalibrateLen == 50
\* EditorPanel.tsx:90: the context menu opens for selections longer than this
MenuThreshold == 5

Trigger == <<"+", "+", "+">>

\* String.prototype.endsWith
EndsWith(s, suffix) ==
    /\ Len(s) >= Len(suffix)
    /\ SubSeq(s, Len(s) - Len(suffix) + 1, Len(s)) = suffix

\* App.tsx:46
CleanContent(c) ==
    IF EndsWith(c, Trigger) THEN SubSeq(c, 1, Len(c) - Len(Trigger)) ELSE c

\* What the user's edits leave in the textarea
Documents ==
    { Text(MinCalibrateLen - 1), Text(MinCalibrateLen),
      Text(MinCalibrateLen) \o Trigger }

\* The selections the context menu offers: stretches of the document
\* longer than MenuThreshold
AppSelections(doc) ==
    { Take(doc, k) : k \in { n \in {MenuThreshold + 1, MinKeywordTextLen} : n <= Len(doc) } }

\* The oracle outcomes the App's continuations draw from
\* (one failure of each kind the handlers can tell apart)
AppKwOutcomes ==
    { o \in KwOutcomes :
        /\ o.kind \in {"array", "nonArray", "throw"}
        /\ o.kind = "array" => Len(o.val) <= 1 }

AppGenOutcomes ==
    { o \in GenOutcomes :
        /\ o.kind \in {"array", "throw"}
        /\ o.kind = "array" => Len(o.items) <= MaxAppItems }

AppRawResponses ==
    { CompleteRaw,
      [CompleteRaw EXCEPT !["tone"] = Undefined],
      [f \in StyleProfileFields |-> Undefined] }

\* ghostWrite (geminiService.ts:177-238) as the handler sees it: a
\* paragraph and new references with fresh ids, or a throw (no key, a
\* rejected call, no text, text that is no JSON of the schema)
GhostWrite(key, outcome, clock) ==
    IF ~key THEN Throw("API Key missing")
    ELSE IF outcome.kind = "array"
    THEN Return([paragraph |-> <<"P">>,
                 newReferences |-> NewSnippets(outcome.items, clock, outcome.rands)])
    ELSE Throw(outcome.kind)

RemoveAt(s, i) == SubSeq(s, 1, i - 1) \o SubSeq(s, i + 1, Len(s))

InitApp ==
    /\ apiKey \in BOOLEAN
    /\ now = 0
    /\ AppInitial
    /\ CallsIdle
    /\ SampleIdle
    /\ StyleIdle
    /\ ResolverIdle

\* Time passes
Tick ==
    /\ now < MaxClock
    /\ now' = now + 1
    /\ UNCHANGED <<apiKey, styVars, resVars, appVars, timerVars, deckVars, callVars, extVars>>

\* clearTimeout(handler) in the cleanup of the effect (App.tsx:37): the
\* timeout of the previous run of the effect, the one armed last, is
\* dropped if it is still pending
ClearTimeout_Noop(ts) == ts
ClearTimeout(ts) == IF ts = <<>> THEN ts ELSE SubSeq(ts, 1, Len(ts) - 1)

\* The effect of App.tsx:20-38 after a step: when the document or the
\* bibliography changed, the cleanup runs and a new timeout is set
DebounceEffect ==
    /\ timers' = IF content' # content \/ researchData' # researchData
                 THEN Append(ClearTimeout(timers),
                             Timeout(now, content', researchData'))
                 ELSE timers
    /\ lastEdit' = IF content' # content THEN now ELSE lastEdit
    /\ runsSinceEdit' = IF content' # content THEN 0 ELSE runsSinceEdit
    /\ UNCHANGED <<autoReqs, lastRun>>

\* The finally blocks of the editor handlers (App.tsx:68-70, 85-87,
\* 102-104, 125-127): setIsGhostWriting(false) after a return and after a
\* throw alike
ClearBusy_NoFinally(result, flag) == IF result.kind = "throw" THEN flag ELSE FALSE
ClearBusy(result, flag) == FALSE

\* The synchronous part of handleGhostWrite (App.tsx:41-49) in a render
\* whose closure holds the document doc; typed is the text of the
\* textarea at that moment, kept for the record
GhostWriteBegin(doc, typed) ==
    /\ isGhostWriting' = TRUE
    /\ ghostReqs' = Append(ghostReqs, [clean |-> CleanContent(doc), typed |-> typed])

\* handleChange (EditorPanel.tsx:36-44): the edit, and the ghost write it
\* triggers through the handler of the render before the edit
HandleChange ==
    /\ started < MaxEvents
    /\ \E val \in Documents :
          /\ val # content
          /\ content' = val
          /\ IF EndsWith(val, Trigger) /\ ~isGhostWriting
             THEN GhostWriteBegin(content, val)
             ELSE UNCHANGED <<isGhostWriting, ghostReqs>>
    /\ started' = started + 1
    /\ lastEvent' = "change"
    /\ UNCHANGED <<apiKey, now, styVars, resVars, deckVars, callVars, extVars,
                   researchData, liveSuggestions, styleProfile, isCalibrating,
                   citeReqs, calibReqs, lastCite>>
    /\ DebounceEffect

\* handleGhostWrite from Ctrl/Cmd+Enter or the button (App.tsx:41-49)
HandleGhostWrite ==
    /\ started < MaxEvents
    /\ ~isGhostWriting
    /\ GhostWriteBegin(content, content)
    /\ started' = started + 1
    /\ lastEvent' = "ghostWrite"
    /\ UNCHANGED <<apiKey, now, styVars, resVars, timerVars, deckVars, callVars, extVars,
                   content, researchData, liveSuggestions, styleProfile,
                   isCalibrating, citeReqs, calibReqs, lastCite>>

\* The continuation of handleGhostWrite (App.tsx:49-70)
GhostWriteResume ==
    \E i \in DOMAIN ghostReqs :
    \E outcome \in (IF apiKey THEN AppGenOutcomes ELSE {NotCalled}) :
        LET req == ghostReqs[i]
            result == GhostWrite(apiKey, outcome, now) IN
        /\ ghostReqs' = RemoveAt(ghostReqs, i)
        /\ isGhostWriting' = ClearBusy(result, isGhostWriting)
        /\ lastDone' = [op |-> "ghostWrite", kind |-> result.kind, typed |-> req.typed,
                        paragraph |-> IF result.kind = "return"
                                      THEN result.value.paragraph ELSE <<>>]
        /\ IF result.kind = "return"
           THEN LET refs == result.value.newReferences IN
                /\ researchData' =
                      IF Len(refs) > 0 THEN refs \o researchData ELSE researchData
                /\ liveSuggestions' =
                      IF Len(refs) > 0
                      THEN Take(refs \o liveSuggestions, CitationTarget)
                      ELSE liveSuggestions
                /\ content' = req.clean \o <<"\n", "\n">> \o result.value.paragraph
           ELSE UNCHANGED <<researchData, liveSuggestions, content>>
        /\ UNCHANGED <<apiKey, now, styVars, resVars, deckVars, callVars,
                       lastAuto, sampleVars, genVars, sectionReqs,
                       styleProfile, isCalibrating, citeReqs, calibReqs,
                       started, lastCite, lastEvent>>
        /\ DebounceEffect

\* The synchronous part of handleFindCitations (App.tsx:107-112)
HandleFindCitations ==
    /\ started < MaxEvents
    /\ \E selection \in AppSelections(content) :
          citeReqs' = Append(citeReqs, [selection |-> selection, db |-> researchData])
    /\ isGhostWriting' = TRUE
    /\ started' = started + 1
    /\ lastEvent' = "findCitations"
    /\ UNCHANGED <<apiKey, now, styVars, resVars, timerVars, deckVars, callVars, extVars,
                   content, researchData, liveSuggestions, styleProfile,
                   isCalibrating, ghostReqs, calibReqs, lastCite>>

\* The dedup filter of App.tsx:115, against the bibliography of the render
\* that started the call
NewCitations_None(citations, staleDB) == <<>>
NewCitations(citations, staleDB) ==
    SelectSeq(citations, LAMBDA c : c.id \notin Ids(staleDB))

\* The continuation of handleFindCitations (App.tsx:112-127)
FindCitationsResume ==
    \E i \in DOMAIN citeReqs :
    LET req == citeReqs[i] IN
    \E ko \in (IF apiKey /\ Len(req.selection) >= MinKeywordTextLen
               THEN AppKwOutcomes ELSE {NotCalled}) :
    LET probe == FindCitationsForSelection(apiKey, req.selection, req.db, ko, NotCalled, now) IN
    \E go \in (IF probe.genRequests # <<>> THEN AppGenOutcomes ELSE {NotCalled}) :
        LET result == FindCitationsForSelection(apiKey, req.selection, req.db, ko, go, now) IN
        /\ citeReqs' = RemoveAt(citeReqs, i)
        /\ isGhostWriting' = ClearBusy(result, isGhostWriting)
        /\ lastDone' = [op |-> "findCitations", kind |-> result.kind]
        /\ IF result.kind = "return"
           THEN LET newCitations == NewCitations(result.value, req.db) IN
                /\ researchData' =
                      IF Len(newCitations) > 0
                      THEN newCitations \o researchData ELSE researchData
                /\ liveSuggestions' = result.value
                /\ lastCite' = [kind |-> "return", db |-> req.db,
                                citations |-> result.value,
                                synthetic |-> result.synthetic]
           ELSE /\ UNCHANGED <<researchData, liveSuggestions>>
                /\ lastCite' = [kind |-> "throw"]
        /\ UNCHANGED <<apiKey, now, styVars, resVars, deckVars, callVars,
                       lastAuto, sampleVars, genVars, sectionReqs,
                       content, styleProfile, isCalibrating, ghostReqs,
                       calibReqs, started, lastEvent>>
        /\ DebounceEffect

\* How a call of the drafting oracle by rewriteSection / continueSection
\* can end: a text, no text, a rejection
SectionOutcomes == {"text", "noText", "throw"}

\* rewriteSection (geminiService.ts:241-261)
RewriteSection(key, selection, outcome) ==
    IF ~key THEN Throw("API Key missing")
    ELSE CASE outcome = "text"   -> Return(<<"R">>)
           [] outcome = "noText" -> Return(selection)       \* response.text || selection
           [] OTHER              -> Throw(outcome)

\* continueSection (geminiService.ts:264-283)
ContinueSection(key, selection, outcome) ==
    IF ~key THEN Throw("API Key missing")
    ELSE CASE outcome = "text"   -> Return(<<"C">>)
           [] outcome = "noText" -> Return(<<>>)            \* response.text || ""
           [] OTHER              -> Throw(outcome)

\* String.prototype.substring(from, to) for 0 <= from <= to
Substring(str, from, to) ==
    SubSeq(str, from + 1, IF to < Len(str) THEN to ELSE Len(str))

\* selectionStart and selectionEnd of the textarea when a request
\* resumes: the selection the menu was opened on (from the start of the
\* text), as far as the text still reaches, or a caret at the end
Carets(selection, doc) ==
    { [start |-> 0, end |-> IF Len(selection) < Len(doc) THEN Len(selection) ELSE Len(doc)],
      [start |-> Len(doc), end |-> Len(doc)] }

\* What the synchronous part of handleRewrite / handleContinue does
\* (App.tsx:73-76, 90-93)
SectionBegin(op) ==
    /\ started < MaxEvents
    /\ \E selection \in AppSelections(content) :
          sectionReqs' = Append(sectionReqs,
                                [op |-> op, selection |-> selection, content |-> content])
    /\ isGhostWriting' = TRUE
    /\ started' = started + 1
    /\ lastEvent' = op
    /\ UNCHANGED <<apiKey, now, styVars, resVars, timerVars, deckVars, callVars,
                   lastAuto, sampleVars, genVars, lastDone,
                   content, researchData, liveSuggestions, styleProfile,
                   isCalibrating, ghostReqs, citeReqs, calibReqs, lastCite>>

\* What a continuation of handleRewrite / handleContinue leaves alone
SectionFrame ==
    UNCHANGED <<apiKey, now, styVars, resVars, deckVars, callVars,
                lastAuto, sampleVars, genVars,
                researchData, liveSuggestions, styleProfile, isCalibrating,
                ghostReqs, citeReqs, calibReqs, started, lastCite, lastEvent>>

\* handleRewrite up to its await (App.tsx:73-76)
HandleRewrite == SectionBegin("rewrite")

\* The continuation of handleRewrite (App.tsx:76-87): the splice is made
\* in the document the closure captured
RewriteResume ==
    \E i \in DOMAIN sectionReqs :
    \E outcome \in (IF apiKey THEN SectionOutcomes ELSE {"none"}) :
    \E caret \in Carets(sectionReqs[i].selection, content) :
        LET req == sectionReqs[i]
            result == RewriteSection(apiKey, req.selection, outcome) IN
        /\ req.op = "rewrite"
        /\ sectionReqs' = RemoveAt(sectionReqs, i)
        /\ isGhostWriting' = ClearBusy(result, isGhostWriting)
        /\ lastDone' = [op |-> "rewrite", kind |-> result.kind]
        /\ content' =
              IF result.kind = "return"
              THEN Substring(req.content, 0, caret.start) \o result.value
                   \o Substring(req.content, caret.end, Len(req.content))
              ELSE content
        /\ SectionFrame
        /\ DebounceEffect

\* handleContinue up to its await (App.tsx:90-93)
HandleContinue == SectionBegin("continue")

\* The continuation of handleContinue (App.tsx:93-104)
ContinueResume ==
    \E i \in DOMAIN sectionReqs :
    \E outcome \in (IF apiKey THEN SectionOutcomes ELSE {"none"}) :
    \E caret \in Carets(sectionReqs[i].selection, content) :
        LET req == sectionReqs[i]
            result == ContinueSection(apiKey, req.selection, outcome) IN
        /\ req.op = "continue"
        /\ sectionReqs' = RemoveAt(sectionReqs, i)
        /\ isGhostWriting' = ClearBusy(result, isGhostWriting)
        /\ lastDone' = [op |-> "continue", kind |-> result.kind]
        /\ content' =
              IF result.kind = "return"
              THEN Substring(req.content, 0, caret.end) \o <<" ">> \o result.value
                   \o Substring(req.content, caret.end, Len(req.content))
              ELSE content
        /\ SectionFrame
        /\ DebounceEffect

\* addResearchSnippet (App.tsx:142-144) with the snippet that
\* handleResearchUpload builds when the file has been read
AddResearchSnippet ==
    /\ started < MaxEvents
    /\ researchData' =
          << Snippet(<<"ts", now>>, <<"q", "u", ".", ".", ".">>, << <<"u", "p">> >>) >>
          \o researchData
    /\ started' = started + 1
    /\ lastEvent' = "upload"
    /\ UNCHANGED <<apiKey, now, styVars, resVars, deckVars, callVars, extVars,
                   content, liveSuggestions, styleProfile, isGhostWriting,
                   isCalibrating, ghostReqs, citeReqs, calibReqs, lastCite>>
    /\ DebounceEffect

\* App.tsx:147
TooShortToCalibrate_Lax(doc) == Len(doc) < MinCalibrateLen - 1
TooShortToCalibrate(doc) == Len(doc) < MinCalibrateLen

\* handleCalibrateFromEditor up to its await (App.tsx:146-153); the
\* button is disabled while isCalibrating.  A document shorter than
\* MinCalibrateLen gets the alert and nothing else.
HandleCalibrateFromEditor ==
    /\ started < MaxEvents
    /\ ~isCalibrating
    /\ IF TooShortToCalibrate(content)
       THEN UNCHANGED <<isCalibrating, calibReqs>>
       ELSE /\ isCalibrating' = TRUE
            /\ calibReqs' = Append(calibReqs, [text |-> content])
    /\ started' = started + 1
    /\ lastEvent' = "calibrate"
    /\ UNCHANGED <<apiKey, now, styVars, resVars, timerVars, deckVars, callVars, extVars,
                   content, researchData, liveSuggestions, styleProfile,
                   isGhostWriting, ghostReqs, citeReqs, lastCite>>

\* The continuation of handleCalibrateFromEditor (App.tsx:153-159)
CalibrateResume ==
    \E i \in DOMAIN calibReqs :
    \E outcome \in (IF apiKey THEN StyleOutcomes ELSE {"none"}) :
    \E raw \in (IF outcome = "object" THEN AppRawResponses ELSE {CompleteRaw}) :
        LET result == AnalyzeStyle(apiKey, outcome, raw) IN
        /\ calibReqs' = RemoveAt(calibReqs, i)
        /\ isCalibrating' = FALSE
        /\ styleProfile' =
              IF result.kind = "return" THEN result.value ELSE styleProfile
        /\ UNCHANGED <<apiKey, now, styVars, resVars, timerVars, deckVars,
                       callVars, extVars, content, researchData, liveSuggestions,
                       isGhostWriting, ghostReqs, citeReqs, started, lastCite,
                       lastEvent>>

Next ==
    \/ Tick
    \/ HandleChange
    \/ HandleGhostWrite
    \/ GhostWriteResume
    \/ HandleFindCitations
    \/ FindCitationsResume
    \/ HandleRewrite
    \/ RewriteResume
    \/ HandleContinue
    \/ ContinueResume
    \/ AddResearchSnippet
    \/ HandleCalibrateFromEditor
    \/ CalibrateResume

Spec == InitApp /\ [][Next]_vars

(***************************************************************************)
(* SpecTimer: the debounce effect of App.tsx:20-38 over sessions longer    *)
(* than its delay.  A timeout callback runs at its deadline: the clock     *)
(* does not pass a pending deadline, and events that fall on the deadline  *)
(* may still be handled first.  The drafting oracle does not answer within *)
(* these sessions: a ghost write that an edit starts stays in flight.      *)
(***************************************************************************)
\* App.tsx:22: the callback looks up only documents longer than this
AutoMinLen == 20

\* The earliest deadline among the pending timeouts
NextDeadline(ts) ==
    CHOOSE d \in {ts[i].deadline : i \in DOMAIN ts} :
        \A i \in DOMAIN ts : d <= ts[i].deadline

\* Nothing happens until the next timeout is due
Elapse ==
    /\ timers # <<>>
    /\ now < NextDeadline(timers)
    /\ now' = NextDeadline(timers)
    /\ UNCHANGED <<apiKey, styVars, resVars, appVars, timerVars, deckVars, callVars, extVars>>

\* The timeout callback up to its await (App.tsx:21-23)
TimerFire ==
    \E i \in DOMAIN timers :
        LET t == timers[i] IN
        /\ t.deadline <= now
        /\ timers' = RemoveAt(timers, i)
        /\ IF Len(t.content) > AutoMinLen
           THEN /\ autoReqs' = Append(autoReqs, [content |-> t.content,
                                                researchData |-> t.researchData])
                /\ runsSinceEdit' = runsSinceEdit + 1
                /\ lastRun' = [kind |-> "run", at |-> now, lastEdit |-> lastEdit,
                               armedAt |-> t.deadline - DebounceMs,
                               n |-> runsSinceEdit + 1]
           ELSE UNCHANGED <<autoReqs, runsSinceEdit, lastRun>>
        /\ UNCHANGED <<apiKey, now, styVars, resVars, appVars, lastEdit,
                       deckVars, callVars, extVars>>

\* App.tsx:26-32: the filter over the bibliography of the callback's
\* closure, then slice(0, 3)
AutoSuggestions_Uncapped(db, keywords) == LocalMatches(db, keywords)
AutoSuggestions(db, keywords) == Take(LocalMatches(db, keywords), 3)

\* The rest of the callback (App.tsx:23-34).  A response that is JSON but
\* no array either has no length (nothing is done) or makes keywords.some
\* throw inside the callback; in both cases no state is written.
AutoLookupResume ==
    \E i \in DOMAIN autoReqs :
    LET req == autoReqs[i] IN
    \E ko \in (IF apiKey /\ Len(req.content) >= MinKeywordTextLen
               THEN AppKwOutcomes ELSE {NotCalled}) :
        LET keywords == ExtractKeywords(apiKey, req.content, ko) IN
        /\ autoReqs' = RemoveAt(autoReqs, i)
        /\ liveSuggestions' =
              IF keywords.kind = "array" /\ Len(keywords.val) > 0
              THEN AutoSuggestions(req.researchData, keywords.val)
              ELSE liveSuggestions
        /\ lastAuto' = [kind |-> "done", content |-> req.content,
                        researchData |-> req.researchData, kw |-> ko,
                        oracles |-> IF keywords.called THEN {"keywords"} ELSE {}]
        /\ UNCHANGED <<apiKey, now, styVars, resVars, deckVars, callVars,
                       sectionVars, sampleVars, genVars,
                       content, researchData, styleProfile, isGhostWriting,
                       isCalibrating, ghostReqs, citeReqs, calibReqs, started,
                       lastCite, lastEvent, timers, lastEdit, runsSinceEdit,
                       lastRun>>

NextTimer ==
    \/ Tick
    \/ Elapse
    \/ HandleChange
    \/ AddResearchSnippet
    \/ TimerFire
    \/ AutoLookupResume

SpecTimer == InitApp /\ [][NextTimer]_vars

(***************************************************************************)
(* SpecFeed: everything that writes the live suggestions or the            *)
(* bibliography, over sessions longer than the debounce delay: automatic   *)
(* lookups, ghost writes, citation lookups and uploads                     *)
(***************************************************************************)
\* User events in one behaviour of SpecFeed
FeedEvents == 2

NextFeed ==
    \/ Elapse
    \/ started < FeedEvents /\ HandleChange
    \/ started < FeedEvents /\ HandleGhostWrite
    \/ GhostWriteResume
    \/ started < FeedEvents /\ HandleFindCitations
    \/ FindCitationsResume
    \/ started < FeedEvents /\ AddResearchSnippet
    \/ TimerFire
    \/ AutoLookupResume

SpecFeed == InitApp /\ [][NextFeed]_vars

(***************************************************************************)
(* SpecSample: generateStyleSample (geminiService.ts:349-381) on the       *)
(* profiles the application holds                                          *)
(***************************************************************************)
\* How a call of the sample oracle can end: a text, no text, a rejection
SampleOutcomes == {"text", "noText", "throw"}

\* Array.prototype.join exists: the prompt of lines 352-369 is built
\* outside the try and calls join on both lists
Joinable(v) == v.type = "array"

GenerateStyleSample(key, profile, outcome) ==
    IF ~key THEN Throw("API Key missing")                          \* line 350
    ELSE IF ~Joinable(profile.bannedWords) \/ ~Joinable(profile.allowedPunctuation)
    THEN Throw("TypeError")                                        \* lines 364, 366
    ELSE CASE outcome = "text"   -> Return(Str("sample"))
           [] outcome = "noText" -> Return(Str("Failed to generate sample."))
           [] OTHER              -> Return(Str("Error generating sample."))

\* Profiles the application can hold: the default, the error profile and
\* what analyzeStyle merges from a response
SampleProfiles ==
    {DEFAULT_STYLE_PROFILE, ErrorProfile} \cup {MergeProfile(r) : r \in RawResponses}

InitSample ==
    /\ apiKey \in BOOLEAN
    /\ now = 0
    /\ AppInitial
    /\ StyleIdle
    /\ ResolverIdle
    /\ CallsIdle
    /\ gProfile \in SampleProfiles
    /\ gOutcome = "none"
    /\ gResult = NoResult
    /\ gPc = "ready"

\* One call of generateStyleSample, the oracle ending in any of its outcomes
GenerateStyleSampleCall ==
    /\ gPc = "ready"
    /\ \E o \in (IF apiKey THEN SampleOutcomes ELSE {"none"}) :
          /\ gOutcome' = o
          /\ gResult' = GenerateStyleSample(apiKey, gProfile, o)
    /\ gPc' = "done"
    /\ UNCHANGED <<apiKey, now, styVars, resVars, appVars, timerVars, deckVars,
                   callVars, sectionVars, lastAuto, sampleVars, gProfile>>

NextSample == GenerateStyleSampleCall

SpecSample == InitSample /\ [][NextSample]_vars

(***************************************************************************)
(* SpecDeck: the style settings of VibeDeck (src/unnamed/part_000).  The   *)
(* text of the banned-words box is a sequence whose elements are words,    *)
(* commas and spaces.                                                      *)
(***************************************************************************)
\* VibeDeck:16, the dashes written in ASCII
PUNCTUATION_OPTIONS == <<";", ":", "--", "()", "!", "?", "...", "-">>

\* Array.prototype.join(", ")
RECURSIVE JoinWords(_)
JoinWords(words) ==
    IF words = <<>> THEN <<>>
    ELSE IF Len(words) = 1 THEN <<words[1]>>
    ELSE <<words[1], ",", " ">> \o JoinWords(Tail(words))

\* String.prototype.split(','): the stretches between the commas
RECURSIVE SplitOnComma(_)
SplitOnComma(text) ==
    IF \A i \in DOMAIN text : text[i] # ","
    THEN <<text>>
    ELSE LET i == CHOOSE k \in DOMAIN text :
                     text[k] = "," /\ \A j \in 1..(k - 1) : text[j] # ","
         IN <<SubSeq(text, 1, i - 1)>> \o SplitOnComma(SubSeq(text, i + 1, Len(text)))

\* String.prototype.trim
RECURSIVE Trim(_)
Trim(text) ==
    IF text = <<>> THEN text
    ELSE IF Head(text) = " " THEN Trim(Tail(text))
    ELSE IF text[Len(text)] = " " THEN Trim(SubSeq(text, 1, Len(text) - 1))
    ELSE text

\* A trimmed stretch as a word of the list: the word itself when it is a
\* single one
WordOf(stretch) == IF Len(stretch) = 1 THEN stretch[1] ELSE stretch

\* VibeDeck:110: bannedWordInput.split(',').map(trim).filter(length > 0)
ParseBannedWords(input) ==
    LET stretches == SplitOnComma(input)
        trimmed == [i \in DOMAIN stretches |-> Trim(stretches[i])]
        kept == SelectSeq(trimmed, LAMBDA t : Len(t) > 0)
    IN [i \in DOMAIN kept |-> WordOf(kept[i])]

\* The preset with one more field
ScientificPreset_Wide ==
    [dialect                 |-> Str("British"),
     writingDomain           |-> Str("Scientific"),
     structuralBias          |-> Str("Coupling (2s)"),
     vocabularyStyle         |-> Str("Literal"),
     modifierFrequency       |-> Str("Low"),
     connectiveFrequency     |-> Str("Low"),
     formalityLevel          |-> Num(90),
     activeVoice             |-> Num(60),
     useMetaphors            |-> Bool(FALSE),
     useAnalogies            |-> Bool(TRUE),
     useAnecdotes            |-> Bool(FALSE),
     allowContractions       |-> Bool(FALSE),
     allowSplitInfinitives   |-> Bool(FALSE),
     allowEndingPrepositions |-> Bool(FALSE),
     preferConcreteNouns     |-> Bool(TRUE),
     sentenceStructure       |-> Str("Balanced")]

\* VibeDeck:116-133: the fields the preset writes
ScientificPreset ==
    [writingDomain           |-> Str("Scientific"),
     structuralBias          |-> Str("Coupling (2s)"),
     vocabularyStyle         |-> Str("Literal"),
     modifierFrequency       |-> Str("Low"),
     connectiveFrequency     |-> Str("Low"),
     formalityLevel          |-> Num(90),
     activeVoice             |-> Num(60),
     useMetaphors            |-> Bool(FALSE),
     useAnalogies            |-> Bool(TRUE),
     useAnecdotes            |-> Bool(FALSE),
     allowContractions       |-> Bool(FALSE),
     allowSplitInfinitives   |-> Bool(FALSE),
     allowEndingPrepositions |-> Bool(FALSE),
     preferConcreteNouns     |-> Bool(TRUE),
     sentenceStructure       |-> Str("Balanced")]

\* { ...profile, ...patch }
Spread(profile, patch) ==
    [f \in StyleProfileFields |->
        IF f \in DOMAIN patch THEN patch[f] ELSE profile[f]]

\* VibeDeck:111: the profile saveSettings installs
SavedProfile_Unparsed(editing, input) == editing
SavedProfile(editing, input) ==
    Spread(editing, [bannedWords |-> Arr(ParseBannedWords(input))])

\* What the user types into the banned-words box
BannedInputs ==
    { <<>>, <<"hype">>, <<"hype", ",", " ", "very">>,
      <<" ", "hype", " ", ",", ",">> }

\* The controls of the form the user changes (VibeDeck:365-631) and the
\* value each is set to
FormEdits ==
    { <<"writingDomain", Str("Creative")>>,
      <<"sentenceLengthBias", Str("Long")>>,
      <<"sentenceVariance", Num(10)>>,
      <<"allowContractions", Bool(TRUE)>>,
      <<"formalityLevel", Num(20)>> }

\* openSettings (VibeDeck:103-107)
OpenSettings ==
    /\ started < MaxEvents
    /\ ~showAdvancedSettings /\ ~showTestSample
    /\ editingProfile' = styleProfile
    /\ bannedWordInput' =
          IF Truthy(styleProfile["bannedWords"])
          THEN JoinWords(styleProfile["bannedWords"].val) ELSE <<>>
    /\ showAdvancedSettings' = TRUE
    /\ started' = started + 1
    /\ lastEvent' = "openSettings"
    /\ UNCHANGED <<apiKey, now, styVars, resVars, timerVars, callVars, extVars,
                   content, researchData, liveSuggestions, styleProfile,
                   isGhostWriting, isCalibrating, ghostReqs, citeReqs,
                   calibReqs, lastCite, isAnalyzingFile, fileReqs>>

\* What the steps of the sample generation leave alone outside VibeDeck
SampleFrame ==
    UNCHANGED <<apiKey, now, styVars, resVars, timerVars, callVars,
                sectionVars, lastAuto, genVars,
                content, researchData, liveSuggestions, isGhostWriting,
                isCalibrating, ghostReqs, citeReqs, calibReqs, lastCite>>

\* What every step of the settings form leaves alone
FormFrame ==
    UNCHANGED <<apiKey, now, styVars, resVars, timerVars, callVars, extVars,
                content, researchData, liveSuggestions, isGhostWriting,
                isCalibrating, ghostReqs, citeReqs, calibReqs, lastCite,
                isAnalyzingFile, fileReqs>>

\* The close button of the form (VibeDeck:335)
CloseSettings ==
    /\ started < MaxEvents
    /\ showAdvancedSettings /\ ~showTestSample
    /\ showAdvancedSettings' = FALSE
    /\ started' = started + 1
    /\ lastEvent' = "closeSettings"
    /\ UNCHANGED <<styleProfile, editingProfile, bannedWordInput>>
    /\ FormFrame

\* saveSettings (VibeDeck:109-113)
SaveSettings ==
    /\ started < MaxEvents
    /\ showAdvancedSettings /\ ~showTestSample
    /\ styleProfile' = SavedProfile(editingProfile, bannedWordInput)
    /\ showAdvancedSettings' = FALSE
    /\ started' = started + 1
    /\ lastEvent' = "saveSettings"
    /\ UNCHANGED <<editingProfile, bannedWordInput>>
    /\ FormFrame

\* applyScientificPreset (VibeDeck:115-134)
ApplyScientificPreset ==
    /\ started < MaxEvents
    /\ showAdvancedSettings /\ ~showTestSample
    /\ editingProfile' = Spread(editingProfile, ScientificPreset)
    /\ started' = started + 1
    /\ lastEvent' = "preset"
    /\ UNCHANGED <<styleProfile, showAdvancedSettings, bannedWordInput>>
    /\ FormFrame

\* togglePunctuation (VibeDeck:136-143)
TogglePunctuation ==
    /\ started < MaxEvents
    /\ showAdvancedSettings /\ ~showTestSample
    /\ \E m \in DOMAIN PUNCTUATION_OPTIONS :
         LET mark == PUNCTUATION_OPTIONS[m]
             current == JsOr(editingProfile["allowedPunctuation"], Arr(<<>>)).val
         IN editingProfile' =
               Spread(editingProfile,
                      [allowedPunctuation |->
                          IF \E i \in DOMAIN current : current[i] = mark
                          THEN Arr(SelectSeq(current, LAMBDA x : x # mark))
                          ELSE Arr(Append(current, mark))])
    /\ started' = started + 1
    /\ lastEvent' = "toggle"
    /\ UNCHANGED <<styleProfile, showAdvancedSettings, bannedWordInput>>
    /\ FormFrame

\* A select, checkbox or slider of the form (VibeDeck:365-631)
EditField ==
    /\ started < MaxEvents
    /\ showAdvancedSettings /\ ~showTestSample
    /\ \E e \in FormEdits :
          editingProfile' = [editingProfile EXCEPT ![e[1]] = e[2]]
    /\ started' = started + 1
    /\ lastEvent' = "editField"
    /\ UNCHANGED <<styleProfile, showAdvancedSettings, bannedWordInput>>
    /\ FormFrame

\* The banned-words box (VibeDeck:642)
EditBannedWords ==
    /\ started < MaxEvents
    /\ showAdvancedSettings /\ ~showTestSample
    /\ \E input \in BannedInputs :
          /\ input # bannedWordInput
          /\ bannedWordInput' = input
    /\ started' = started + 1
    /\ lastEvent' = "editBanned"
    /\ UNCHANGED <<styleProfile, showAdvancedSettings, editingProfile>>
    /\ FormFrame

\* handleFileUpload with a file chosen, up to the await (VibeDeck:67-75);
\* the upload button is disabled while isAnalyzingFile and lies under the
\* open form
HandleFileUpload ==
    /\ started < MaxEvents
    /\ ~isAnalyzingFile
    /\ ~showAdvancedSettings /\ ~showTestSample
    /\ isAnalyzingFile' = TRUE
    /\ fileReqs' = Append(fileReqs, [text |-> Text(MinCalibrateLen)])
    /\ started' = started + 1
    /\ lastEvent' = "fileUpload"
    /\ UNCHANGED <<apiKey, now, styVars, resVars, timerVars, callVars, extVars,
                   content, researchData, liveSuggestions, styleProfile,
                   isGhostWriting, isCalibrating, ghostReqs, citeReqs,
                   calibReqs, lastCite, showAdvancedSettings, editingProfile,
                   bannedWordInput>>

\* The continuation of handleFileUpload (VibeDeck:75-78).  There is no
\* try: when analyzeStyle throws, nothing after the await runs.
FileAnalysisResume ==
    \E i \in DOMAIN fileReqs :
    \E outcome \in (IF apiKey THEN StyleOutcomes ELSE {"none"}) :
    \E raw \in (IF outcome = "object" THEN AppRawResponses ELSE {CompleteRaw}) :
        LET result == AnalyzeStyle(apiKey, outcome, raw) IN
        /\ fileReqs' = RemoveAt(fileReqs, i)
        /\ IF result.kind = "return"
           THEN /\ styleProfile' = result.value
                /\ editingProfile' = result.value
                /\ isAnalyzingFile' = FALSE
           ELSE UNCHANGED <<styleProfile, editingProfile, isAnalyzingFile>>
        /\ UNCHANGED <<apiKey, now, styVars, resVars, timerVars, callVars, extVars,
                       content, researchData, liveSuggestions, isGhostWriting,
                       isCalibrating, ghostReqs, citeReqs, calibReqs, started,
                       lastCite, lastEvent, showAdvancedSettings,
                       bannedWordInput>>

\* handleGenerateSample up to its await (VibeDeck:145-149); the button
\* is in the form and is disabled while isGeneratingSample
HandleGenerateSample ==
    /\ started < MaxEvents
    /\ showAdvancedSettings /\ ~showTestSample
    /\ ~isGeneratingSample
    /\ isGeneratingSample' = TRUE
    /\ sampleReqs' = Append(sampleReqs,
                            [profile |-> SavedProfile(editingProfile, bannedWordInput)])
    /\ started' = started + 1
    /\ lastEvent' = "generateSample"
    /\ UNCHANGED <<styleProfile, showAdvancedSettings, editingProfile,
                   bannedWordInput, isAnalyzingFile, fileReqs,
                   testSampleText, showTestSample>>
    /\ SampleFrame

\* The continuation of handleGenerateSample (VibeDeck:149-152).  There is
\* no try: when generateStyleSample throws, nothing after the await runs.
GenerateSampleResume ==
    \E i \in DOMAIN sampleReqs :
    \E outcome \in (IF apiKey THEN SampleOutcomes ELSE {"none"}) :
        LET result == GenerateStyleSample(apiKey, sampleReqs[i].profile, outcome) IN
        /\ sampleReqs' = RemoveAt(sampleReqs, i)
        /\ IF result.kind = "return"
           THEN /\ testSampleText' = result.value.val
                /\ isGeneratingSample' = FALSE
                /\ showTestSample' = TRUE
           ELSE UNCHANGED <<testSampleText, isGeneratingSample, showTestSample>>
        /\ UNCHANGED <<styleProfile, showAdvancedSettings, editingProfile,
                       bannedWordInput, isAnalyzingFile, fileReqs, started,
                       lastEvent>>
        /\ SampleFrame

\* The close button of the sample dialog (VibeDeck:700)
CloseTestSample ==
    /\ started < MaxEvents
    /\ showTestSample
    /\ showTestSample' = FALSE
    /\ started' = started + 1
    /\ lastEvent' = "closeSample"
    /\ UNCHANGED <<styleProfile, showAdvancedSettings, editingProfile,
                   bannedWordInput, isAnalyzingFile, fileReqs,
                   isGeneratingSample, sampleReqs, testSampleText>>
    /\ SampleFrame

NextDeck ==
    \/ OpenSettings
    \/ CloseSettings
    \/ SaveSettings
    \/ ApplyScientificPreset
    \/ TogglePunctuation
    \/ EditField
    \/ EditBannedWords
    \/ HandleFileUpload
    \/ FileAnalysisResume
    \/ HandleGenerateSample
    \/ GenerateSampleResume
    \/ CloseTestSample

SpecDeck == InitApp /\ [][NextDeck]_vars

(***************************************************************************)
(* SpecCalls: the oracle calls each trigger makes.  An attempt is one call *)
(* of ai.models.generateContent.                                           *)
(***************************************************************************)
Triggers ==
    {"citationLookup", "ghostWrite", "calibration", "sampleGeneration",
     "automaticLookup"}

NoCalls == [keywords |-> 0, generation |-> 0, style |-> 0, sample |-> 0, draft |-> 0]

\* analyzeStyle: the key test of line 11, then the one call of line 48
\* inside the try, whose catch returns without calling again
AnalyzeStyleCalls_Retry(key, outcome) ==
    IF ~key THEN 0 ELSE IF outcome = "object" THEN 1 ELSE 2
AnalyzeStyleCalls(key, outcome) == IF ~key THEN 0 ELSE 1

\* ghostWrite: the key test of line 184, then the one call of line 197
GhostWriteCalls(key, outcome) == IF ~key THEN 0 ELSE 1

\* generateStyleSample: the key test of line 350, then the one call of
\* line 373 inside the try
GenerateStyleSampleCalls(key, outcome) == IF ~key THEN 0 ELSE 1

InitCalls ==
    /\ apiKey \in BOOLEAN
    /\ now = 0
    /\ AppInitial
    /\ StyleIdle
    /\ ResolverIdle
    /\ SampleIdle
    /\ cTrigger \in Triggers
    /\ cText \in Selections \cup {Text(AutoMinLen)}
    /\ cDB \in {<<>>, INITIAL_RESEARCH_DB}
    /\ cOutcome = NotCalled
    /\ cCalls = NoResult
    /\ cPc = "ready"

\* What the steps of SpecCalls leave alone
CallsFrame ==
    UNCHANGED <<apiKey, now, styVars, resVars, appVars, timerVars, deckVars,
                extVars, cTrigger, cText, cDB>>

\* handleFindCitations: one call of findCitationsForSelection (App.tsx:112)
CitationLookupCall ==
    /\ cPc = "ready" /\ cTrigger = "citationLookup"
    /\ \E ko \in (IF apiKey /\ Len(cText) >= MinKeywordTextLen
                  THEN AppKwOutcomes ELSE {NotCalled}) :
         LET probe == FindCitationsForSelection(apiKey, cText, cDB, ko, NotCalled, now) IN
         \E go \in (IF probe.genRequests # <<>> THEN AppGenOutcomes ELSE {NotCalled}) :
            LET result == FindCitationsForSelection(apiKey, cText, cDB, ko, go, now) IN
            /\ cOutcome' = [kw |-> ko, gen |-> go]
            /\ cCalls' = [NoCalls EXCEPT
                             !.keywords = IF result.kwCalled THEN 1 ELSE 0,
                             !.generation = Len(result.genRequests)]
    /\ cPc' = "done"
    /\ CallsFrame

\* The timeout callback: one call of extractKeywords for a document longer
\* than AutoMinLen (App.tsx:22-23)
AutomaticLookupCall ==
    /\ cPc = "ready" /\ cTrigger = "automaticLookup"
    /\ \E ko \in (IF apiKey /\ Len(cText) >= MinKeywordTextLen
                  THEN AppKwOutcomes ELSE {NotCalled}) :
         /\ cOutcome' = [kw |-> ko]
         /\ cCalls' = [NoCalls EXCEPT
                          !.keywords =
                             IF Len(cText) > AutoMinLen
                                /\ ExtractKeywords(apiKey, cText, ko).called
                             THEN 1 ELSE 0]
    /\ cPc' = "done"
    /\ CallsFrame

\* handleCalibrateFromEditor: one call of analyzeStyle for a document that
\* is long enough (App.tsx:147-154)
CalibrationCall ==
    /\ cPc = "ready" /\ cTrigger = "calibration"
    /\ \E so \in (IF apiKey /\ ~TooShortToCalibrate(cText)
                  THEN StyleOutcomes ELSE {"none"}) :
         /\ cOutcome' = [style |-> so]
         /\ cCalls' = [NoCalls EXCEPT
                          !.style = IF TooShortToCalibrate(cText) THEN 0
                                    ELSE AnalyzeStyleCalls(apiKey, so)]
    /\ cPc' = "done"
    /\ CallsFrame

\* handleGhostWrite: one call of ghostWrite (App.tsx:49)
GhostWriteCall ==
    /\ cPc = "ready" /\ cTrigger = "ghostWrite"
    /\ \E do \in (IF apiKey THEN AppGenOutcomes ELSE {NotCalled}) :
         /\ cOutcome' = [draft |-> do]
         /\ cCalls' = [NoCalls EXCEPT !.draft = GhostWriteCalls(apiKey, do)]
    /\ cPc' = "done"
    /\ CallsFrame

\* handleGenerateSample: one call of generateStyleSample (VibeDeck:149)
SampleGenerationCall ==
    /\ cPc = "ready" /\ cTrigger = "sampleGeneration"
    /\ \E xo \in (IF apiKey THEN SampleOutcomes ELSE {"none"}) :
         /\ cOutcome' = [sample |-> xo]
         /\ cCalls' = [NoCalls EXCEPT !.sample = GenerateStyleSampleCalls(apiKey, xo)]
    /\ cPc' = "done"
    /\ CallsFrame

NextCalls ==
    \/ CitationLookupCall
    \/ AutomaticLookupCall
    \/ CalibrationCall
    \/ GhostWriteCall
    \/ SampleGenerationCall

SpecCalls == InitCalls /\ [][NextCalls]_vars

(***************************************************************************)
(* Properties of the citation resolver, checked under SpecResolver         *)
(***************************************************************************)
\* The keywords the resolver worked with: the oracle's array, or none when
\* the oracle was not called or failed
ExtractedKeywords == IF rKw.kind = "array" THEN rKw.val ELSE <<>>

\* The indexes of the bibliography entries that match, stated on positions
MatchIdx(db, keywords) == {i \in DOMAIN db : ItemMatches(db[i], keywords)}

\* s lists, in order, the entries of db at the n lowest indexes of M
IsFirstOf(s, db, M, n) ==
    /\ Len(s) = n
    /\ \A k \in 1..n :
          \E i \in M : Cardinality({j \in M : j < i}) = k - 1 /\ s[k] = db[i]

ResolverReturned == rPc = "done" /\ rResult.kind = "return"

\* C1: the resolver returns at most 3 snippets, whatever number of items
\* the generation oracle returns.
C1_AtMostThree == ResolverReturned => Len(rResult.value) <= 3

\* C2: with 3 or more matching entries the resolver returns exactly the
\* first 3 of them in bibliography order and never calls the generation
\* oracle.
C2_ShortCircuit ==
    LET M == MatchIdx(rDB, ExtractedKeywords) IN
    (rPc = "done" /\ rKw.kind # "nonArray" /\ Cardinality(M) >= 3) =>
        /\ rResult.kind = "return"
        /\ IsFirstOf(rResult.value, rDB, M, 3)
        /\ rResult.genRequests = <<>>
        /\ rGen = NotCalled

\* C2's case: four entries match, three are returned
C2_Witness ==
    /\ ResolverReturned
    /\ Cardinality(MatchIdx(rDB, ExtractedKeywords)) = 4
    /\ Len(rResult.value) = 3

\* C3: with m = 0, 1 or 2 matching entries the resolver issues one
\* generation request for exactly 3 - m items and returns the m local
\* matches followed by the synthetic citations, at most 3 in all.
C3_FillTheGap ==
    LET M == MatchIdx(rDB, ExtractedKeywords)
        m == Cardinality(M) IN
    (rPc = "done" /\ apiKey /\ rKw.kind # "nonArray" /\ m < 3) =>
        /\ rResult.kind = "return"
        /\ rResult.genRequests = <<3 - m>>
        /\ IsFirstOf(SubSeq(rResult.value, 1, m), rDB, M, m)
        /\ SubSeq(rResult.value, m + 1, Len(rResult.value)) = rResult.synthetic
        /\ Len(rResult.value) <= 3

\* C4: when the generation oracle fails (throws, no text, malformed
\* response) the resolver returns exactly the local matches and throws
\* nothing.
C4_GenerationFailureAbsorbed ==
    LET M == MatchIdx(rDB, ExtractedKeywords) IN
    (rPc = "done" /\ rGen.kind \in GenFailures) =>
        /\ rResult.kind = "return"
        /\ IsFirstOf(rResult.value, rDB, M, Cardinality(M))

\* C4's case: a malformed response with two local matches in hand
C4_Witness ==
    /\ rPc = "done"
    /\ rGen.kind = "nonArray"
    /\ rResult.kind = "return"
    /\ Len(rResult.value) = 2

\* k is a substring of s when letter case is ignored
SubstringIgnoringCase(k, s) ==
    \E from \in 1..(Len(s) + 1) :
        /\ from + Len(k) - 1 <= Len(s)
        /\ \A n \in 1..Len(k) : LowerChar(s[from + n - 1]) = LowerChar(k[n])

\* The entry qualifies under the documented rule
Qualifies(entry, keywords) ==
    \E i \in DOMAIN keywords :
        \/ SubstringIgnoringCase(keywords[i], entry.content)
        \/ \E j \in DOMAIN entry.tags :
               SubstringIgnoringCase(keywords[i], entry.tags[j])

\* C19: an entry is a local match exactly when some extracted keyword is,
\* ignoring letter case, a substring of its content or of one of its tags;
\* with no keywords no entry matches.
C19_LocalMatchRule ==
    (rPc = "done" /\ apiKey /\ rKw.kind # "nonArray") =>
        /\ rResult.kind = "return"
        /\ rResult.localMatches =
              SelectSeq(rDB, LAMBDA e : Qualifies(e, ExtractedKeywords))
        /\ ExtractedKeywords = <<>> => rResult.localMatches = <<>>

\* C19's case: an upper-case keyword selects some entries and not others
C19_Witness ==
    /\ ResolverReturned
    /\ rKw.kind = "array"
    /\ \E i \in DOMAIN rKw.val : rKw.val[i] = <<"Q", "U">>
    /\ rResult.localMatches # <<>>
    /\ Len(rResult.localMatches) < Len(rDB)

\* C20: for an excerpt shorter than 50 characters (the empty one included)
\* the keyword oracle is not called, nothing matches locally whatever the
\* bibliography holds, and the generation oracle is asked for exactly 3.
C20_ShortExcerpt ==
    (rPc = "done" /\ apiKey /\ Len(rSelection) < 50) =>
        /\ rKw = NotCalled
        /\ ~rResult.kwCalled
        /\ rResult.kind = "return"
        /\ rResult.localMatches = <<>>
        /\ rResult.genRequests = <<3>>
        /\ rGen # NotCalled

\* C20's case: a 49-character excerpt against the whole pool
C20_Witness ==
    /\ rPc = "done"
    /\ apiKey
    /\ Len(rSelection) = 49
    /\ Len(rDB) = Len(ResolverPool)
    /\ rResult.genRequests = <<3>>

(***************************************************************************)
(* Properties of the profile merge, checked under SpecStyle                *)
(***************************************************************************)
StyleMerged == sPc = "done" /\ apiKey /\ sOutcome = "object"

\* The defaults the specification documents for absent fields
DocumentedDefault(f) ==
    CASE f = "dialect"                 -> Str("American")
      [] f = "sentenceStructure"       -> Str("Natural")
      [] f = "sentenceLengthBias"      -> Str("Varied")
      [] f = "vocabularyStyle"         -> Str("Literal")
      [] f = "modifierFrequency"       -> Str("Medium")
      [] f = "connectiveFrequency"     -> Str("Medium")
      [] f = "writingDomain"           -> Str("General")
      [] f = "structuralBias"          -> Str("Default")
      [] f \in PedantryFields          -> Bool(TRUE)
      [] f = "bannedWords"             -> Arr(<<>>)

DocumentedFields == EnumFields \cup PedantryFields \cup {"bannedWords"}

\* C8: a field absent from the analyzer's record holds its documented
\* default in the merged profile.
C8_DocumentedDefaults ==
    StyleMerged =>
        /\ sResult.kind = "return"
        /\ \A f \in DocumentedFields :
              Nullish(sRaw[f]) => sResult.value[f] = DocumentedDefault(f)

\* C8's case: a record without a dialect and without a pedantry flag
C8_Witness ==
    /\ StyleMerged
    /\ sRaw["dialect"] = Undefined
    /\ sRaw["allowSplitInfinitives"] = Undefined
    /\ sResult.kind = "return"

\* C9: every field the analyzer supplies with a non-null value (false, an
\* empty string and an empty list included) is in the merged profile
\* unchanged.
C9_SuppliedValuesKept ==
    StyleMerged =>
        /\ sResult.kind = "return"
        /\ \A f \in StyleProfileFields :
              ~Nullish(sRaw[f]) => sResult.value[f] = sRaw[f]

\* C10: analyzeStyle returns a profile for every input and every oracle
\* outcome, a missing API key included; it never throws.
C10_NeverThrows == sPc = "done" => sResult.kind = "return"

\* The oracle call was made and failed
StyleFailed == sPc = "done" /\ apiKey /\ sOutcome # "object"

\* C11: when the style-analysis call fails, the returned profile has
\* "Error" in every descriptive text field (tone, avgSentenceLength,
\* jargonLevel, rawSummary) and 50 in every numeric field.
C11_ErrorProfile ==
    StyleFailed =>
        /\ sResult.kind = "return"
        /\ \A f \in TextFields : sResult.value[f] = Str("Error")
        /\ \A f \in NumericFields : sResult.value[f] = Num(50)

(***************************************************************************)
(* Properties of the App, checked under Spec                               *)
(***************************************************************************)
\* A citation lookup has resumed and brought synthetic citations
LookupBroughtSynthetic ==
    lastCite.kind = "return" /\ lastCite.synthetic # <<>>

\* The number of bibliography entries for which P holds
Occurrences(db, P(_)) == Cardinality({j \in DOMAIN db : P(db[j])})

\* C5: every synthetic citation of a resolution call has an id distinct
\* from every id the bibliography held when the call was made.
C5_FreshIds ==
    LookupBroughtSynthetic =>
        \A i \in DOMAIN lastCite.synthetic :
            lastCite.synthetic[i].id \notin Ids(lastCite.db)

\* C6: after a lookup resumes with synthetic citations, each of them is
\* an entry of the bibliography exactly once, whatever changed the
\* bibliography meanwhile, and a later resolution whose keywords match it
\* finds it among the local matches.
C6_SyntheticMergedOnce ==
    LookupBroughtSynthetic =>
        \A i \in DOMAIN lastCite.synthetic :
            LET c == lastCite.synthetic[i] IN
            /\ Occurrences(researchData, LAMBDA e : e = c) = 1
            /\ Occurrences(researchData, LAMBDA e : e.id = c.id) = 1
            /\ \A ks \in KeywordLists :
                  ItemMatches(c, ks) =>
                      \E n \in DOMAIN LocalMatches(researchData, ks) :
                          LocalMatches(researchData, ks)[n] = c

\* C7: the current StyleProfile has a defined value for every field in
\* every reachable state.
C7_ProfileFullyDefined ==
    \A f \in StyleProfileFields : ~Nullish(styleProfile[f])

\* A step in which the user asks for a calibration from the editor
CalibrateTrigger == started' = started + 1 /\ lastEvent' = "calibrate"

\* C12: a calibration asked for on a document shorter than 50 characters
\* starts no analysis and leaves the profile and the isCalibrating flag as
\* they were; on a longer document it starts exactly one analysis, of that
\* document.
C12_CalibrationGuard ==
    [][CalibrateTrigger =>
         IF Len(content) < 50
         THEN /\ calibReqs' = calibReqs
              /\ styleProfile' = styleProfile
              /\ isCalibrating' = isCalibrating
         ELSE /\ calibReqs' = Append(calibReqs, [text |-> content])
              /\ isCalibrating']_vars

\* C12's case: a calibration was asked for on 49 characters and none started
C12_Witness ==
    /\ lastEvent = "calibrate"
    /\ Len(content) = 49
    /\ calibReqs = <<>>
    /\ ~isCalibrating

\* C15: when a ghost write that was in flight resolves, its paragraph is
\* appended to the document as it is at that moment, edits made meanwhile
\* included, not to the document captured when the request started.
C15_AppliedToCurrentDocument ==
    [][(Len(ghostReqs') < Len(ghostReqs) /\ content' # content) =>
          content' = CleanContent(content) \o <<"\n", "\n", "P">>]_vars

(***************************************************************************)
(* Properties of the debounce effect, checked under SpecTimer              *)
(***************************************************************************)
\* An automatic lookup has started
AutoRan == lastRun.kind = "run"

\* C13: the timer is reset on every edit.  At most one timeout is pending
\* and it is due no earlier than 30 seconds after the last edit; an
\* automatic lookup never starts less than 30 seconds after the last edit;
\* and the timeout armed by the last edit of a burst gives the one and only
\* run since that edit.
C13_Debounce ==
    /\ Len(timers) <= 1
    /\ \A i \in DOMAIN timers : timers[i].deadline >= lastEdit + 30000
    /\ AutoRan =>
          /\ lastRun.at - lastRun.lastEdit >= 30000
          /\ lastRun.armedAt = lastRun.lastEdit => lastRun.n = 1

\* C13's case: two edits one millisecond apart, then one run, 30 seconds
\* after the second
C13_Witness ==
    /\ started = 2
    /\ lastEvent = "change"
    /\ researchData = INITIAL_RESEARCH_DB
    /\ content \in Documents
    /\ ghostReqs = <<>>
    /\ lastEdit = 1
    /\ AutoRan
    /\ lastRun.at = 30001
    /\ runsSinceEdit = 1
    /\ timers = <<>>

\* C14: once more than 30 seconds have passed since the last edit of a
\* document long enough to be looked up, the automatic lookup has started,
\* whatever else happened in the quiet period.
C14_RunsAfterQuietPeriod ==
    (lastEdit >= 0 /\ Len(content) > 20 /\ now - lastEdit > 30000) =>
        runsSinceEdit >= 1

(***************************************************************************)
(* Properties of the style settings, checked under SpecDeck                *)
(***************************************************************************)
\* The fields the Scientific preset names
PresetNamedFields ==
    {"writingDomain", "structuralBias", "vocabularyStyle", "modifierFrequency",
     "connectiveFrequency", "formalityLevel", "activeVoice", "useMetaphors",
     "useAnalogies", "useAnecdotes", "allowContractions",
     "allowSplitInfinitives", "allowEndingPrepositions", "preferConcreteNouns",
     "sentenceStructure"}

\* The user event of this step
UserEvent(name) == started' = started + 1 /\ lastEvent' = name

\* C16: applying the Scientific preset leaves every field the preset does
\* not name as it was in the editing profile, and does not change the
\* current (saved) profile.
C16_PresetFrame ==
    [][UserEvent("preset") =>
          /\ \A f \in StyleProfileFields \ PresetNamedFields :
                editingProfile'[f] = editingProfile[f]
          /\ editingProfile'["writingDomain"] = Str("Scientific")
          /\ editingProfile'["formalityLevel"] = Num(90)
          /\ styleProfile' = styleProfile]_vars

\* C16's case: the preset applied over an editing profile whose sentence
\* variance the user had changed
C16_Witness ==
    /\ lastEvent = "preset"
    /\ editingProfile["formalityLevel"] = Num(90)
    /\ editingProfile["sentenceVariance"] = Num(10)
    /\ styleProfile["formalityLevel"] = Num(85)
    /\ styleProfile["sentenceVariance"] = Num(40)

\* C18: edits in the form, punctuation toggles, the preset and closing the
\* form leave the current profile as it is; saveSettings replaces it by the
\* editing copy with the parsed banned-word list; and nothing else but a
\* finished style analysis changes it.
C18_ReplaceOnSave ==
    [][/\ (\E e \in {"editField", "editBanned", "toggle", "preset",
                     "closeSettings", "openSettings"} : UserEvent(e))
            => styleProfile' = styleProfile
       /\ UserEvent("saveSettings") =>
             /\ \A f \in StyleProfileFields \ {"bannedWords"} :
                   styleProfile'[f] = editingProfile[f]
             /\ styleProfile'["bannedWords"] = Arr(ParseBannedWords(bannedWordInput))
       /\ styleProfile' # styleProfile =>
             UserEvent("saveSettings") \/ Len(fileReqs') < Len(fileReqs)]_vars

\* C18's case: the form saved with an untidy banned-words box
C18_Witness ==
    /\ lastEvent = "saveSettings"
    /\ bannedWordInput = <<" ", "hype", " ", ",", ",">>
    /\ styleProfile["bannedWords"] = Arr(<<"hype">>)
    /\ ~showAdvancedSettings

C21_SampleNeverThrows ==
    gPc = "done" =>
        /\ gResult.kind = "return"
        /\ gResult.value.type = "string"

(***************************************************************************)
(* Properties of the automatic lookup, checked under SpecTimer             *)
(***************************************************************************)
\* A step in which a timeout callback starts / an automatic lookup resumes
TimerFired == Len(timers') < Len(timers)
AutoResumed == Len(autoReqs') < Len(autoReqs)

\* The keywords an automatic lookup got
AutoKeywords(auto) == IF auto.kw.kind = "array" THEN auto.kw.val ELSE <<>>

\* C22: the automatic lookup extracts keywords and matches locally only.
\* It never calls the generation oracle and never changes the
\* bibliography; for a document of 20 characters or fewer it makes no call
\* and leaves the live suggestions alone; when no keyword comes back it
\* leaves them alone; otherwise they become the first 3 (or all, if
\* fewer) matching entries in bibliography order.
C22_AutoLookupFrame ==
    [][/\ TimerFired =>
            /\ researchData' = researchData
            /\ liveSuggestions' = liveSuggestions
            /\ \A i \in DOMAIN timers :
                  (timers[i].deadline <= now /\ Len(timers[i].content) <= 20)
                      => autoReqs' = autoReqs
       /\ AutoResumed =>
            /\ researchData' = researchData
            /\ "generation" \notin lastAuto'.oracles
            /\ Len(lastAuto'.content) > 20
            /\ LET ks == AutoKeywords(lastAuto')
                   db == lastAuto'.researchData
                   M == {i \in DOMAIN db : Qualifies(db[i], ks)}
                   n == IF Cardinality(M) < 3 THEN Cardinality(M) ELSE 3 IN
               IF ks = <<>>
               THEN liveSuggestions' = liveSuggestions
               ELSE /\ IsFirstOf(liveSuggestions', db, M, n)
                    /\ Len(liveSuggestions') <= 3
                    /\ \A k \in DOMAIN liveSuggestions' :
                          liveSuggestions'[k].id \in Ids(researchData')]_vars

\* C22's case: an automatic lookup over a bibliography with more than 3
\* matching entries has set the live suggestions
C22_Witness ==
    /\ lastAuto.kind = "done"
    /\ AutoKeywords(lastAuto) # <<>>
    /\ Len(LocalMatches(lastAuto.researchData, AutoKeywords(lastAuto))) > 3
    /\ Len(liveSuggestions) = 3

(***************************************************************************)
(* Properties of the editor requests, checked under Spec                   *)
(***************************************************************************)
\* A step in which a ghost write resumes
GhostResumed == Len(ghostReqs') < Len(ghostReqs)

\* C23: when the ghost write was started on a text ending with "+++" and
\* succeeds, the document becomes that text without the trailing "+++",
\* a blank line and the generated paragraph.
C23_TriggerRemoved ==
    [][(/\ GhostResumed
        /\ lastDone'.kind = "return"
        /\ EndsWith(lastDone'.typed, Trigger)) =>
          content' = SubSeq(lastDone'.typed, 1, Len(lastDone'.typed) - 3)
                     \o <<"\n", "\n">> \o lastDone'.paragraph]_vars

\* C24: at most one ghost-write request is in flight at any time.
C24_OneGhostWrite == Len(ghostReqs) <= 1

\* Some editor request (ghost write, rewrite, continue, find citations)
\* is in flight
EditorBusy == ghostReqs # <<>> \/ citeReqs # <<>> \/ sectionReqs # <<>>

\* C25: while any editor request is in flight the isGhostWriting flag is
\* true.
C25_BusyWhileInFlight == EditorBusy => isGhostWriting

(***************************************************************************)
(* Properties of the busy flags, checked under SpecDeck                    *)
(***************************************************************************)
\* C26: no busy flag stays true once its request has resolved or failed:
\* a flag that is true has a request in flight.
C26_FlagsCleared ==
    /\ isGhostWriting => EditorBusy
    /\ isCalibrating => calibReqs # <<>>
    /\ isAnalyzingFile => fileReqs # <<>>
    /\ isGeneratingSample => sampleReqs # <<>>

(***************************************************************************)
(* Properties of the bibliography and the live suggestions                 *)
(***************************************************************************)
\* C27: no two bibliography entries have the same id.
C27_UniqueIds ==
    \A i, j \in DOMAIN researchData :
        i # j => researchData[i].id # researchData[j].id

\* C29: the live suggestions list holds at most 3 snippets.
C29_AtMostThreeSuggestions == Len(liveSuggestions) <= 3

(***************************************************************************)
(* Failures of the editor requests, checked under Spec                     *)
(***************************************************************************)
\* A step in which a ghost-write, rewrite, continue or find-citations
\* request resumes
EditorResumed ==
    \/ GhostResumed
    \/ Len(citeReqs') < Len(citeReqs)
    \/ Len(sectionReqs') < Len(sectionReqs)

\* C30: when an editor request fails with an exception, the document, the
\* bibliography, the live suggestions and the style profile are left
\* unchanged and isGhostWriting is reset to false.
C30_FailureAbsorbed ==
    [][(EditorResumed /\ lastDone'.kind = "throw") =>
          /\ content' = content
          /\ researchData' = researchData
          /\ liveSuggestions' = liveSuggestions
          /\ styleProfile' = styleProfile
          /\ isGhostWriting' = FALSE]_vars

\* C30's case: with the key set, a ghost write has failed after the
\* document and the live suggestions were filled
C30_Witness ==
    /\ apiKey
    /\ lastDone.kind = "throw"
    /\ lastDone.op = "ghostWrite"
    /\ content # <<>>
    /\ liveSuggestions # <<>>
    /\ ~isGhostWriting

(***************************************************************************)
(* Properties of the live suggestions, checked under SpecFeed              *)
(***************************************************************************)
\* C28: every snippet shown in the live suggestions is an entry (same id)
\* of the bibliography.
C28_SuggestionsInBibliography ==
    \A k \in DOMAIN liveSuggestions :
        \E i \in DOMAIN researchData : researchData[i].id = liveSuggestions[k].id

\* C28's case: a citation lookup that brought synthetic citations has
\* resumed while the bibliography it started from was out of date, and they
\* are shown
C28_Witness ==
    /\ LookupBroughtSynthetic
    /\ liveSuggestions = lastCite.citations
    /\ Len(researchData) > Len(lastCite.db) + Len(lastCite.synthetic)

=============================================================================
